---- MODULE Spec2Model ----
(***************************************************************************)
(* A model of qualysapi's QGConnector (src/qualysapi/connector.py): the    *)
(* request-normalisation engine (classification of a call, base url, verb, *)
(* call formatting, payload formatting), the two transports and the        *)
(* per-call rate limit bookkeeping.                                        *)
(*                                                                         *)
(* Python strings are sequences of one-character strings, so that          *)
(* lstrip/rstrip/endswith/startswith/in/indexing act on characters.        *)
(***************************************************************************)
EXTENDS Integers, Sequences, FiniteSets, TLC

VARIABLES
    curl_use_subprocess,              \* self.curl_use_subprocess
    api_methods,                      \* self.api_methods (dict of sets)
    api_methods_with_trailing_slash,  \* self.api_methods_with_trailing_slash
    rate_limit_remaining,             \* self.rate_limit_remaining: defaultdict(int)
    last,                             \* the operation completed last, with its inputs and outcome
    recorded,                         \* history: calls whose response stored a header value
    was_read,                         \* history: keys read through the mapping
    ever_keys,                        \* history: every key the mapping ever held
    pc,                               \* per thread: position inside request()
    treq,                             \* per thread: the locals of its request()
    stores                            \* history: the stores into the mapping, in order

vars == <<curl_use_subprocess, api_methods, api_methods_with_trailing_slash,
          rate_limit_remaining, last, recorded, was_read, ever_keys,
          pc, treq, stores>>

conn_vars == <<curl_use_subprocess, api_methods, api_methods_with_trailing_slash>>
hist_vars == <<recorded, was_read, ever_keys>>
thread_vars == <<pc, treq, stores>>

----------------------------------------------------------------------------
(* Bounds of the model.                                                    *)

\* Longest run of leading '/' and of trailing '?' put around a call.
MaxDelims == 2
\* Longest hint string built freely from HintChars.
MaxHintLen == 2
\* Longest query string built freely from QueryChars.
MaxQueryLen == 3
\* Number of threads that call request() on one connector.
NumThreads == 2
\* Largest value of the x-ratelimit-remaining header.
MaxRemaining == 2

----------------------------------------------------------------------------
(* Python str methods.                                                     *)

RECURSIVE lstrip(_, _)
lstrip(s, c) == IF s # <<>> /\ Head(s) = c THEN lstrip(Tail(s), c) ELSE s

RECURSIVE rstrip(_, _)
rstrip(s, c) ==
    IF s # <<>> /\ s[Len(s)] = c THEN rstrip(SubSeq(s, 1, Len(s) - 1), c) ELSE s

startswith(s, p) == Len(p) <= Len(s) /\ SubSeq(s, 1, Len(p)) = p

endswith(s, p) == Len(p) <= Len(s) /\ SubSeq(s, Len(s) - Len(p) + 1, Len(s)) = p

\* p in s
contains(s, p) ==
    \E i \in 1..(Len(s) - Len(p) + 1) : SubSeq(s, i, i + Len(p) - 1) = p

LowerChar(c) ==
    CASE c = "V" -> "v"
      [] c = "P" -> "p"
      [] c = "C" -> "c"
      [] OTHER -> c

lower(s) == [i \in 1..Len(s) |-> LowerChar(s[i])]

Digits == {"0", "1", "2", "3", "4", "5", "6", "7", "8", "9"}

isdigit(c) == c \in Digits

DigitVal(c) ==
    CASE c = "0" -> 0 [] c = "1" -> 1 [] c = "2" -> 2 [] c = "3" -> 3
      [] c = "4" -> 4 [] c = "5" -> 5 [] c = "6" -> 6 [] c = "7" -> 7
      [] c = "8" -> 8 [] c = "9" -> 9

RECURSIVE DigitsVal(_)
DigitsVal(s) ==
    IF s = <<>> THEN 0
    ELSE 10 * DigitsVal(SubSeq(s, 1, Len(s) - 1)) + DigitVal(s[Len(s)])

\* int(s) of a str: surrounding whitespace is ignored, one sign is allowed,
\* then one or more decimal digits; anything else raises ValueError.
int(s) ==
    LET t == rstrip(lstrip(s, " "), " ")
        signed == t # <<>> /\ Head(t) \in {"+", "-"}
        d == IF signed THEN Tail(t) ELSE t
    IN  IF d # <<>> /\ \A i \in 1..Len(d) : isdigit(d[i])
        THEN [exc |-> "none",
              n |-> IF signed /\ Head(t) = "-" THEN 0 - DigitsVal(d) ELSE DigitsVal(d)]
        ELSE [exc |-> "ValueError", n |-> 0]

----------------------------------------------------------------------------
(* Values.                                                                 *)

\* An api_version value inside request(): an int, 'am', 'was', or the False
\* that which_api_version returns when no pattern matches.
VInt(n) == [k |-> "int", n |-> n]
V_am == [k |-> "am", n |-> 0]
V_was == [k |-> "was", n |-> 0]
V_False == [k |-> "False", n |-> 0]

\* The api_version argument of request(): None, an int or a str.
HintNone == [k |-> "none", n |-> 0, s |-> <<>>]
HintInt(n) == [k |-> "int", n |-> n, s |-> <<>>]
HintStr(s) == [k |-> "str", n |-> 0, s |-> s]

\* if api_version:
HintTruthy(h) ==
    CASE h.k = "none" -> FALSE
      [] h.k = "int" -> h.n # 0
      [] h.k = "str" -> h.s # <<>>

s_php == <<".", "p", "h", "p">>
s_api2 == <<"a", "p", "i", "/", "2", ".", "0", "/">>
s_am == <<"/", "a", "m", "/">>
s_was == <<"/", "w", "a", "s", "/">>

AmWords == {<<"a", "s", "s", "e", "t", " ", "m", "a", "n", "a", "g", "e", "m", "e", "n", "t">>,
            <<"a", "s", "s", "e", "t", "s">>, <<"t", "a", "g">>, <<"t", "a", "g", "g", "i", "n", "g">>, <<"t", "a", "g", "s">>}
WasWords == {<<"w", "e", "b", "a", "p", "p">>,
             <<"w", "e", "b", " ", "a", "p", "p", "l", "i", "c", "a", "t", "i", "o", "n", " ", "s", "c", "a", "n", "n", "i", "n", "g">>,
             <<"w", "e", "b", "a", "p", "p", " ", "s", "c", "a", "n", "n", "i", "n", "g">>}
PcWords == {<<"p", "o", "l">>, <<"p", "c">>}

----------------------------------------------------------------------------
(* The endpoint classifier.                                                *)

\* format_api_version: called only with a truthy api_version, so a str is
\* not empty and a[1] (Python's api_version[0]) exists; Python's
\* api_version[1] on a one-character 'v' raises IndexError.
format_api_version(api_version) ==
    IF api_version.k # "str" THEN [exc |-> "none", v |-> VInt(api_version.n)]
    ELSE
    LET a == lower(api_version.s)
    IN  IF a[1] = "v" /\ Len(a) < 2 THEN [exc |-> "IndexError", v |-> V_False]
        ELSE
        LET b == IF a[1] = "v" /\ isdigit(a[2]) THEN Tail(a) ELSE a
        IN  IF b \in AmWords THEN [exc |-> "none", v |-> V_am]
            ELSE IF b \in WasWords THEN [exc |-> "none", v |-> V_was]
            ELSE IF b \in PcWords THEN [exc |-> "none", v |-> VInt(2)]
            ELSE LET i == int(b)
                 IN  [exc |-> i.exc, v |-> IF i.exc = "none" THEN VInt(i.n) ELSE V_False]

\* A faulty variant of which_api_version: the prefix is tested before the suffix.
which_api_versionReordered(api_call) ==
    IF startswith(api_call, s_api2) THEN VInt(2)
    ELSE IF endswith(api_call, s_php) THEN VInt(1)
    ELSE IF contains(api_call, s_am) THEN V_am
    ELSE IF contains(api_call, s_was) THEN V_was
    ELSE V_False

which_api_version(api_call) ==
    IF endswith(api_call, s_php) THEN VInt(1)
    ELSE IF startswith(api_call, s_api2) THEN VInt(2)
    ELSE IF contains(api_call, s_am) THEN V_am
    ELSE IF contains(api_call, s_was) THEN V_was
    ELSE V_False

----------------------------------------------------------------------------
(* The url builder.                                                        *)

\* The default of __init__'s server parameter.
server == "qualysapi.qualys.com"

\* A url is the sequence of its pieces: the scheme, the server, then characters.
url_api_version(api_version) ==
    IF api_version = VInt(1) THEN
        [exc |-> "none", url |-> <<"https://", server>> \o <<"/", "m", "s", "p", "/">>]
    ELSE IF api_version = VInt(2) THEN
        [exc |-> "none", url |-> <<"https://", server>> \o <<"/">>]
    ELSE IF api_version = V_was THEN
        [exc |-> "none", url |-> <<"https://", server>> \o <<"/", "q", "p", "s", "/", "r", "e", "s", "t", "/", "3", ".", "0", "/">>]
    ELSE IF api_version = V_am THEN
        [exc |-> "none", url |-> <<"https://", server>> \o <<"/", "q", "p", "s", "/", "r", "e", "s", "t", "/", "1", ".", "0", "/">>]
    ELSE [exc |-> "Exception", url |-> <<>>]

----------------------------------------------------------------------------
(* Payloads.                                                               *)

\* The data argument of request(): None, a str, a dict or an lxml element.
\* A dict maps a key to a value that is a list of strs (list = TRUE, as
\* parse_qs builds) or one str (list = FALSE, v = <<the str>>). An element
\* is known by the number of its children.
DataNone == [k |-> "none", s |-> <<>>, d |-> <<>>, n |-> 0]
DataStr(s) == [k |-> "str", s |-> s, d |-> <<>>, n |-> 0]
DataDict(d) == [k |-> "dict", s |-> <<>>, d |-> d, n |-> 0]
DataXml(n) == [k |-> "xml", s |-> <<>>, d |-> <<>>, n |-> n]
\* urllib.urlencode(d): the 'k=v&...' string of a dict of strs; the order of
\* its pairs is the dict's iteration order, so it is kept as the dict.
DataUrlencoded(d) == [k |-> "urlencoded", s |-> <<>>, d |-> d, n |-> 0]

\* Python's truth value of data: None, '' and {} are false, and so is an
\* lxml element without children.
DataTruthy(data) ==
    CASE data.k = "none" -> FALSE
      [] data.k = "str" -> data.s # <<>>
      [] data.k = "dict" -> DOMAIN data.d # {}
      [] data.k = "xml" -> data.n > 0
      [] OTHER -> TRUE

RECURSIVE split(_, _)
split(s, c) ==
    IF \E i \in 1..Len(s) : s[i] = c
    THEN LET i == CHOOSE j \in 1..Len(s) : s[j] = c /\ \A h \in 1..(j - 1) : s[h] # c
         IN  <<SubSeq(s, 1, i - 1)>> \o split(SubSeq(s, i + 1, Len(s)), c)
    ELSE <<s>>

\* urlparse.parse_qs(qs) for a qs without ';', '%' and '+': the pairs are
\* split on '&'; a pair without '=' or with a blank value is dropped; the
\* values of a repeated name accumulate in the order met.
parse_qs(qs) ==
    LET nv(seg) == split(seg, "=")
        name(seg) == nv(seg)[1]
        value(seg) == SubSeq(seg, Len(name(seg)) + 2, Len(seg))
        kept == SelectSeq(split(qs, "&"),
                          LAMBDA seg : Len(nv(seg)) >= 2 /\ value(seg) # <<>>)
        names == {name(kept[i]) : i \in 1..Len(kept)}
        of(nm) == SelectSeq(kept, LAMBDA seg : name(seg) = nm)
    IN  [nm \in names |->
            [list |-> TRUE, v |-> [i \in 1..Len(of(nm)) |-> value(of(nm)[i])]]]

\* lxml.etree.tostring(element)
tostring(n) == IF n = 0 THEN <<"<", "t", "/", ">">> ELSE <<"<", "t", ">", "<", "c", "/", ">", "<", "/", "t", ">">>

format_payload(api_version, data) ==
    IF api_version \in {VInt(1), VInt(2)} THEN
        IF data.k = "str"
        THEN DataDict(parse_qs(rstrip(lstrip(data.s, "?"), "&")))
        ELSE data
    ELSE IF api_version \in {V_am, V_was} THEN
        IF data.k = "xml" THEN DataStr(tostring(data.n)) ELSE data
    ELSE data

----------------------------------------------------------------------------
(* The verb selector and the call normalizer.                              *)

MethodGroups == {"1 post", "was get", "was no data get", "am get"}

Generations == {VInt(1), VInt(2), V_am, V_was}

\* A faulty variant of format_http_method: no fallback to GET without data.
format_http_methodNoDataIgnored(methods, api_version, api_call, data) ==
    IF api_version = VInt(2) THEN "post"
    ELSE IF api_version = VInt(1) THEN
        IF api_call \in methods["1 post"] THEN "post" ELSE "get"
    ELSE IF api_version = V_was THEN
        IF api_call \in methods["was get"] THEN "get" ELSE "post"
    ELSE
        IF api_call \in methods["am get"] THEN "get" ELSE "post"

\* A faulty variant of format_http_method: `data is None` in place of `not data`.
format_http_methodOnlyNone(methods, api_version, api_call, data) ==
    IF api_version = VInt(2) THEN "post"
    ELSE IF api_version = VInt(1) THEN
        IF api_call \in methods["1 post"] THEN "post" ELSE "get"
    ELSE IF api_version = V_was THEN
        IF api_call \in methods["was get"] THEN "get"
        ELSE IF data.k = "none" THEN
            IF api_call \in methods["was no data get"] THEN "get" ELSE "post"
        ELSE "post"
    ELSE
        IF api_call \in methods["am get"] THEN "get" ELSE "post"

format_http_method(methods, api_version, api_call, data) ==
    IF api_version = VInt(2) THEN "post"
    ELSE IF api_version = VInt(1) THEN
        IF api_call \in methods["1 post"] THEN "post" ELSE "get"
    ELSE IF api_version = V_was THEN
        IF api_call \in methods["was get"] THEN "get"
        ELSE IF ~DataTruthy(data) THEN
            IF api_call \in methods["was no data get"] THEN "get" ELSE "post"
        ELSE "post"
    ELSE
        IF api_call \in methods["am get"] THEN "get" ELSE "post"

preformat_call(api_call) == rstrip(lstrip(api_call, "/"), "?")

\* format_call: api_call[-1] of an empty api_call raises IndexError, and is
\* evaluated only when api_version == 2.
format_call(slash, api_version, api_call) ==
    LET c0 == rstrip(lstrip(api_call, "/"), "?")
    IN  IF api_version = VInt(2) /\ c0 = <<>> THEN [exc |-> "IndexError", call |-> <<>>]
        ELSE
        LET c1 == IF api_version = VInt(2) /\ c0[Len(c0)] # "/" THEN c0 \o <<"/">> ELSE c0
            c2 == IF c1 \in slash[api_version] THEN c1 \o <<"/">> ELSE c1
        IN  [exc |-> "none", call |-> c2]

----------------------------------------------------------------------------
(* request(): everything up to the transport.                              *)

\* What a transport is handed. requests.get/post: the verb, the url, the
\* headers and the payload as params (get) or data (post). curl: the url,
\* one -H per header and, for a true data, -d data; no verb is handed over.
NoSend ==
    [via |-> "none", method |-> "", url |-> <<>>, headers |-> <<>>,
     params |-> DataNone, data |-> DataNone]

base_headers == "X-Requested-With" :> "Parag Baxi QualysAPI (python)"

request_headers(api_version) ==
    IF api_version \in {V_am, V_was}
    THEN base_headers @@ ("Content-type" :> "text/xml")
    ELSE base_headers

\* The curl branch's treatment of data: a list value of a dict is replaced
\* by its first item, then the dict is urlencoded.
curl_data(data) ==
    IF data.k = "dict"
    THEN DataUrlencoded([key \in DOMAIN data.d |->
                            [list |-> FALSE, v |-> <<data.d[key].v[1]>>]])
    ELSE data

curl_call(url, headers, data) ==
    [via |-> "curl", method |-> "", url |-> url, headers |-> headers,
     params |-> DataNone,
     data |-> IF DataTruthy(data) THEN curl_data(data) ELSE DataNone]

requests_call(http_method, url, headers, data) ==
    IF http_method = "get"
    THEN [via |-> "requests", method |-> "get", url |-> url, headers |-> headers,
          params |-> data, data |-> DataNone]
    ELSE [via |-> "requests", method |-> "post", url |-> url, headers |-> headers,
          params |-> DataNone, data |-> data]

NotPrepared ==
    [exc |-> "none", stage |-> "start", version |-> V_False, url |-> <<>>,
     http_method |-> "", call |-> <<>>, headers |-> <<>>, data |-> DataNone,
     sent |-> NoSend]

\* request() from its first line to the call of the transport.  stage names
\* the step that raised, or "dispatch" when the transport is called.
prepare(methods, slash, subprocess, api_call0, data0, api_version0, http_method0) ==
    LET api_call == preformat_call(api_call0)
        fv == IF HintTruthy(api_version0)
              THEN format_api_version(api_version0)
              ELSE [exc |-> "none", v |-> which_api_version(api_call)]
    IN
    IF fv.exc # "none"
    THEN [NotPrepared EXCEPT !.exc = fv.exc, !.stage = "format_api_version"]
    ELSE
    LET u == url_api_version(fv.v) IN
    IF u.exc # "none"
    THEN [NotPrepared EXCEPT !.exc = u.exc, !.stage = "url_api_version"]
    ELSE
    LET headers == request_headers(fv.v)
        http_method == IF http_method0 = ""
                       THEN format_http_method(methods, fv.v, api_call, data0)
                       ELSE http_method0
        fc == format_call(slash, fv.v, api_call)
    IN
    IF fc.exc # "none"
    THEN [NotPrepared EXCEPT !.exc = fc.exc, !.stage = "format_call",
                             !.version = fv.v, !.url = u.url,
                             !.http_method = http_method, !.headers = headers]
    ELSE
    LET url == u.url \o fc.call
        data == IF data0.k # "none" THEN format_payload(fv.v, data0) ELSE data0
    IN  [exc |-> "none", stage |-> "dispatch", version |-> fv.v, url |-> url,
         http_method |-> http_method, call |-> fc.call, headers |-> headers,
         data |-> data,
         sent |-> IF subprocess
                  THEN curl_call(url, headers, data)
                  ELSE requests_call(http_method, url, headers, data)]

----------------------------------------------------------------------------
(* request(): from the transport's answer to the return.                   *)

\* What a transport answers: requests gives a response with a status and
\* headers (has_header: 'x-ratelimit-remaining' is among them, header: its
\* value); subprocess.call gives curl's exit code and nothing else.
NoResponse == [status |-> 0, has_header |-> FALSE, header |-> <<>>, rc |-> 0]

\* A faulty variant of the store: d.setdefault(key, val), which keeps an old value.
setitemKeepsOld(d, key, val) ==
    [k \in DOMAIN d \cup {key} |-> IF k = key /\ k \notin DOMAIN d THEN val ELSE d[k]]

\* d[key] = val
setitem(d, key, val) ==
    [k \in DOMAIN d \cup {key} |-> IF k = key THEN val ELSE d[k]]

\* The try block of request(): KeyError (no such header) and TypeError are
\* caught; the ValueError of int() on a non-numeric value is not.
record_rate(rate, api_call, resp) ==
    IF ~resp.has_header THEN [exc |-> "none", rate |-> rate]
    ELSE LET i == int(resp.header)
         IN  IF i.exc # "none" THEN [exc |-> i.exc, rate |-> rate]
             ELSE [exc |-> "none", rate |-> setitem(rate, api_call, i.n)]

\* request.raise_for_status()
raise_for_status(resp) ==
    IF resp.status >= 400 /\ resp.status < 600 THEN "HTTPError" ELSE "none"

\* The rest of request() after the transport has answered: its outcome
\* (exc, and what is returned) and the mapping it leaves.
complete(rate, subprocess, api_call, resp) ==
    IF subprocess
    THEN [exc |-> "none", stage |-> "return", ret |-> "exit code", rate |-> rate]
    ELSE
    LET r == record_rate(rate, api_call, resp) IN
    IF r.exc # "none"
    THEN [exc |-> r.exc, stage |-> "record", ret |-> "", rate |-> r.rate]
    ELSE IF raise_for_status(resp) # "none"
    THEN [exc |-> raise_for_status(resp), stage |-> "raise_for_status", ret |-> "",
          rate |-> r.rate]
    ELSE [exc |-> "none", stage |-> "return", ret |-> "content", rate |-> r.rate]

----------------------------------------------------------------------------
(* Inputs.                                                                 *)

\* The strings of length at most n over the characters cs.
RECURSIVE StringsUpTo(_, _)
StringsUpTo(cs, n) ==
    IF n = 0 THEN {<<>>}
    ELSE LET shorter == StringsUpTo(cs, n - 1)
         IN  shorter \cup {Append(t, c) : t \in shorter, c \in cs}

Repeat(c, n) == [i \in 1..n |-> c]

c_php == <<"a", ".", "p", "h", "p">>
c_v2 == <<"a", "p", "i", "/", "2", ".", "0", "/", "a">>
c_v2_slash == <<"a", "p", "i", "/", "2", ".", "0", "/", "a", "/">>
c_v2_php == <<"a", "p", "i", "/", "2", ".", "0", "/", "a", ".", "p", "h", "p">>
c_am == <<"c", "/", "a", "m", "/", "t">>
c_am_bare == <<"a", "m", "/", "t">>
c_was == <<"c", "/", "w", "a", "s", "/", "w">>
c_was_bare == <<"w", "a", "s", "/", "w">>
c_am_was == <<"c", "/", "w", "a", "s", "/", "a", "m", "/", "t">>
c_plain == <<"a">>
c_plain_slash == <<"a", "/">>

CallBodies ==
    {<<>>, c_php, c_v2, c_v2_slash, c_v2_php, c_am, c_am_bare, c_was, c_was_bare,
     c_am_was, c_plain, c_plain_slash}

\* Raw calls: a body between runs of leading '/' and trailing '?'.
Calls ==
    {Repeat("/", l) \o b \o Repeat("?", t) :
        l \in 0..MaxDelims, b \in CallBodies, t \in 0..MaxDelims}

\* Hints that name each generation, as an int and as a str.
GenerationHints ==
    {HintInt(1), HintInt(2), HintStr(<<"a", "s", "s", "e", "t", "s">>),
     HintStr(<<"w", "e", "b", "a", "p", "p">>)}

HintChars == {"v", "V", "1", "2", "3", "+", " ", "x"}

\* str hints: the module words, in lower and upper case spellings, with and
\* without a leading 'v', and every short string over HintChars.
StrHints ==
    {HintStr(w) : w \in AmWords \cup WasWords \cup PcWords}
    \cup {HintStr(<<"v">> \o w) : w \in AmWords \cup WasWords \cup PcWords}
    \cup {HintStr(<<"P", "C">>), HintStr(<<"P", "c">>)}
    \cup {HintStr(w) : w \in StringsUpTo(HintChars, MaxHintLen)}

QueryChars == {"?", "&", "=", "k", "1"}

d_empty == <<>>
d_plain == <<"k">> :> [list |-> FALSE, v |-> <<<<"1">>>>]
d_one == <<"k">> :> [list |-> TRUE, v |-> <<<<"1">>>>]
d_two == <<"k">> :> [list |-> TRUE, v |-> <<<<"1">>, <<"2">>>>]

\* Payloads of every kind, empty and not.
BasicData ==
    {DataNone, DataStr(<<>>), DataStr(<<"k", "=", "1">>), DataStr(tostring(1)),
     DataDict(d_empty), DataDict(d_plain), DataDict(d_one), DataDict(d_two),
     DataXml(0), DataXml(1)}

QueryData == {DataStr(q) : q \in StringsUpTo(QueryChars, MaxQueryLen)}

\* The http_method argument: None ("") or a verb.
VerbHints == {"", "get", "post"}

Input(c, d, v, m) == [api_call |-> c, data |-> d, api_version |-> v, http_method |-> m]

\* Calls the method groups and the trailing-slash sets may hold.
RegistryCalls == {c_php, c_was}

SlashEntries == {c_php, c_v2, c_v2_slash, c_am}

NoMethods == [g \in MethodGroups |-> {}]
NoSlash == [g \in Generations |-> {}]

AllMethods == [MethodGroups -> SUBSET RegistryCalls]

\* Trailing-slash sets: one generation's set is any subset of SlashEntries.
AllSlash ==
    {[g \in Generations |-> IF g = h THEN S ELSE {}] :
        h \in Generations, S \in SUBSET SlashEntries}

Statuses == {200, 404, 500}

DigitChar(n) == CHOOSE c \in Digits : DigitVal(c) = n

HeaderValues == {<<DigitChar(n)>> : n \in 0..MaxRemaining} \cup {<<"x">>, <<>>}

\* What the transport of the mode can answer.
Responses(subprocess) ==
    IF subprocess
    THEN {[NoResponse EXCEPT !.rc = c] : c \in {0, 6}}
    ELSE {[status |-> st, has_header |-> FALSE, header |-> <<>>, rc |-> 0] :
              st \in Statuses}
         \cup {[status |-> st, has_header |-> TRUE, header |-> h, rc |-> 0] :
              st \in Statuses, h \in HeaderValues}

OkResponses(subprocess) ==
    IF subprocess THEN {NoResponse}
    ELSE {[status |-> 200, has_header |-> FALSE, header |-> <<>>, rc |-> 0]}

\* The response carries an x-ratelimit-remaining header that is an integer.
NumericHeader(resp) == resp.has_header /\ int(resp.header).exc = "none"

Threads == 1..NumThreads

----------------------------------------------------------------------------
(* The state machine.                                                      *)

NoInput == Input(<<>>, DataNone, HintNone, "")
NotCompleted == [exc |-> "none", stage |-> "none", ret |-> "", rate |-> <<>>]

NoOp ==
    [op |-> "none", in |-> NoInput, prep |-> NotPrepared, resp |-> NoResponse,
     fin |-> NotCompleted, rate_before |-> <<>>, key |-> <<>>, value |-> 0]

\* A connector after __init__: the mapping is empty; the registry and the
\* transport mode are those it was built with.
InitWith(modes, methodsets, slashsets) ==
    /\ curl_use_subprocess \in modes
    /\ api_methods \in methodsets
    /\ api_methods_with_trailing_slash \in slashsets
    /\ rate_limit_remaining = <<>>
    /\ last = NoOp
    /\ recorded = {}
    /\ was_read = {}
    /\ ever_keys = {}
    /\ pc = [t \in Threads |-> "idle"]
    /\ treq = [t \in Threads |-> [call |-> <<>>, resp |-> NoResponse, exc |-> "none"]]
    /\ stores = <<>>

\* One call of request(api_call, data, api_version, http_method), from entry
\* to return or raise, with the transport's answer drawn from resps.
Request(inputs, resps) ==
    \E i \in inputs :
        LET p == prepare(api_methods, api_methods_with_trailing_slash,
                         curl_use_subprocess, i.api_call, i.data, i.api_version,
                         i.http_method)
        IN  IF p.exc # "none"
            THEN /\ last' = [NoOp EXCEPT !.op = "request", !.in = i, !.prep = p,
                                         !.rate_before = rate_limit_remaining]
                 /\ UNCHANGED <<conn_vars, rate_limit_remaining, hist_vars, thread_vars>>
            ELSE \E resp \in resps :
                 LET f == complete(rate_limit_remaining, curl_use_subprocess, p.call, resp)
                 IN  /\ rate_limit_remaining' = f.rate
                     /\ last' = [NoOp EXCEPT !.op = "request", !.in = i, !.prep = p,
                                             !.resp = resp, !.fin = f,
                                             !.rate_before = rate_limit_remaining]
                     /\ recorded' = IF NumericHeader(resp)
                                    THEN recorded \cup {p.call} ELSE recorded
                     /\ ever_keys' = ever_keys \cup DOMAIN f.rate
                     /\ UNCHANGED <<conn_vars, was_read, thread_vars>>

\* A faulty variant of the read: a plain lookup that stores nothing.
getitemNoDefault(d, key) ==
    IF key \in DOMAIN d
    THEN [present |-> TRUE, value |-> d[key], d |-> d]
    ELSE [present |-> FALSE, value |-> 0, d |-> d]

\* self.rate_limit_remaining[key] read by a caller: the mapping is a
\* defaultdict(int), whose __getitem__ stores int() = 0 under a missing key
\* and returns it.
getitem(d, key) ==
    IF key \in DOMAIN d
    THEN [present |-> TRUE, value |-> d[key], d |-> d]
    ELSE [present |-> TRUE, value |-> 0, d |-> setitem(d, key, 0)]

Read(keys) ==
    \E key \in keys :
        LET g == getitem(rate_limit_remaining, key)
        IN  /\ rate_limit_remaining' = g.d
            /\ last' = [NoOp EXCEPT !.op = "read", !.key = key,
                                    !.value = IF g.present THEN g.value ELSE -1,
                                    !.rate_before = rate_limit_remaining]
            /\ was_read' = was_read \cup {key}
            /\ ever_keys' = ever_keys \cup DOMAIN g.d
            /\ UNCHANGED <<conn_vars, recorded, thread_vars>>

----------------------------------------------------------------------------
(* request() step by step, for several threads on one connector.           *)

\* Thread t enters request() and runs it up to the call of the transport.
Dispatch(t, inputs) ==
    /\ pc[t] = "idle"
    /\ \E i \in inputs :
        LET p == prepare(api_methods, api_methods_with_trailing_slash,
                         curl_use_subprocess, i.api_call, i.data, i.api_version,
                         i.http_method)
        IN  /\ pc' = [pc EXCEPT ![t] = IF p.exc # "none" THEN "done" ELSE "sent"]
            /\ treq' = [treq EXCEPT ![t].call = p.call, ![t].exc = p.exc]
    /\ UNCHANGED <<conn_vars, rate_limit_remaining, last, hist_vars, stores>>

\* The transport of thread t returns; the curl branch returns at once.
Answer(t, resps) ==
    /\ pc[t] = "sent"
    /\ \E resp \in resps : treq' = [treq EXCEPT ![t].resp = resp]
    /\ pc' = [pc EXCEPT ![t] = IF curl_use_subprocess THEN "done" ELSE "answered"]
    /\ UNCHANGED <<conn_vars, rate_limit_remaining, last, hist_vars, stores>>

\* The try block of thread t: int() of the header works on the thread's own
\* response; the store into the shared dict is one item assignment.
Record(t) ==
    /\ pc[t] = "answered"
    /\ LET r == record_rate(rate_limit_remaining, treq[t].call, treq[t].resp)
       IN  /\ rate_limit_remaining' = r.rate
           /\ pc' = [pc EXCEPT ![t] = IF r.exc # "none" THEN "done" ELSE "recorded"]
           /\ treq' = [treq EXCEPT ![t].exc = r.exc]
           /\ stores' = IF NumericHeader(treq[t].resp)
                        THEN Append(stores, <<treq[t].call, int(treq[t].resp.header).n>>)
                        ELSE stores
    /\ UNCHANGED <<conn_vars, last, hist_vars>>

\* Thread t checks the status and returns or raises.
Finish(t) ==
    /\ pc[t] = "recorded"
    /\ pc' = [pc EXCEPT ![t] = "done"]
    /\ treq' = [treq EXCEPT ![t].exc = raise_for_status(treq[t].resp)]
    /\ UNCHANGED <<conn_vars, rate_limit_remaining, last, hist_vars, stores>>

----------------------------------------------------------------------------
(* Specifications.                                                         *)
(*                                                                         *)
(* What request() does up to the transport depends on its arguments and    *)
(* on the registry only, not on earlier requests: the specifications that  *)
(* explore its arguments make one request on a fresh connector.            *)

\* Classification and call formatting: every raw call with no hint and with
\* a hint for each generation, and every hint string on a few calls.
CallInputs ==
    {Input(c, DataNone, h, "") : c \in Calls, h \in {HintNone} \cup GenerationHints}
    \cup {Input(c, DataNone, h, "") :
            c \in {c_php, c_am, c_plain},
            h \in StrHints \cup {HintStr(<<>>), HintInt(0), HintInt(3)}}

InitCall == InitWith({FALSE}, {NoMethods}, AllSlash)
NextCall == last.op = "none" /\ Request(CallInputs, OkResponses(curl_use_subprocess))
SpecCall == InitCall /\ [][NextCall]_vars

\* Verb selection: every registry over RegistryCalls, every kind of payload.
VerbInputs ==
    {Input(c, d, h, m) :
        c \in {c_php, c_was, <<"/">> \o c_was \o <<"?">>}, d \in BasicData,
        h \in {HintNone} \cup GenerationHints, m \in VerbHints}

InitVerb == InitWith({FALSE}, AllMethods, {NoSlash})
NextVerb == last.op = "none" /\ Request(VerbInputs, OkResponses(curl_use_subprocess))
SpecVerb == InitVerb /\ [][NextVerb]_vars

\* The two transports: every payload, every verb hint, both modes.
WireInputs ==
    {Input(c, d, HintNone, m) :
        c \in {c_php, c_am}, d \in BasicData \cup QueryData, m \in VerbHints}

InitWire == InitWith(BOOLEAN, {NoMethods}, {NoSlash})
NextWire == last.op = "none" /\ Request(WireInputs, OkResponses(curl_use_subprocess))
SpecWire == InitWire /\ [][NextWire]_vars

\* Rate limit bookkeeping: requests answered in every way, and reads.
RateInputs ==
    {Input(c, DataNone, HintNone, "") :
        c \in {c_php, <<"/">> \o c_php \o <<"?">>, c_am, c_plain}}

ReadKeys == {c_php, c_am, c_plain}

InitRate == InitWith(BOOLEAN, {NoMethods}, {NoSlash})
NextRate ==
    \/ Request(RateInputs, Responses(curl_use_subprocess))
    \/ Read(ReadKeys)
SpecRate == InitRate /\ [][NextRate]_vars

\* Concurrent requests: each thread makes one request.
ThreadInputs == {Input(c, DataNone, HintNone, "") : c \in {c_php, c_am}}

ThreadResponses ==
    {r \in Responses(curl_use_subprocess) : r.status # 404 /\ r.header # <<"0">>}

InitThreads == InitWith(BOOLEAN, {NoMethods}, {NoSlash})
NextThreads ==
    \E t \in Threads :
        \/ Dispatch(t, ThreadInputs)
        \/ Answer(t, ThreadResponses)
        \/ Record(t)
        \/ Finish(t)
SpecThreads == InitThreads /\ [][NextThreads]_vars

----------------------------------------------------------------------------
(* Claims.  last holds the request (or read) completed last: its arguments *)
(* (last.in), what request() computed up to the transport (last.prep), the *)
(* transport's answer (last.resp), the outcome (last.fin) and the mapping  *)
(* before it (last.rate_before).                                           *)

Requested == last.op = "request"
Dispatched == Requested /\ last.prep.stage = "dispatch"

\* The generation a call's shape names, first match winning; V_False: none.
ShapeGeneration(call) ==
    CASE endswith(call, s_php) -> VInt(1)
      [] ~endswith(call, s_php) /\ startswith(call, s_api2) -> VInt(2)
      [] ~endswith(call, s_php) /\ ~startswith(call, s_api2) /\ contains(call, s_am) -> V_am
      [] ~endswith(call, s_php) /\ ~startswith(call, s_api2) /\ ~contains(call, s_am)
         /\ contains(call, s_was) -> V_was
      [] OTHER -> V_False

\* The last request resolved generation g; for V_False: it failed with the
\* fatal error before a url was built, a verb chosen or a transport called.
ResolvedAs(g) ==
    IF g = V_False
    THEN /\ last.prep.exc = "Exception"
         /\ last.prep.url = <<>>
         /\ last.prep.http_method = ""
         /\ last.prep.sent = NoSend
         /\ last.resp = NoResponse
    ELSE /\ last.prep.exc = "none"
         /\ last.prep.version = g
         /\ last.prep.sent # NoSend

Stripped(call) == rstrip(lstrip(call, "/"), "?")

\* C1, as claimed: with no hint, the generation is the one the shape of the
\* raw call names, and a raw call of no known shape fails before url
\* building, verb selection and dispatch.
C1_ByRawShape ==
    (Requested /\ last.in.api_version = HintNone)
        => ResolvedAs(ShapeGeneration(last.in.api_call))

\* C1, amended: with no hint, the generation is the one named by the shape
\* of the call after its leading '/' and trailing '?' are removed (first
\* match winning: '.php' suffix, 'api/2.0/' prefix, '/am/', '/was/'), and a
\* call of no known shape fails before url building, verb selection and
\* dispatch.
C1_ByStrippedShape ==
    (Requested /\ last.in.api_version = HintNone)
        => ResolvedAs(ShapeGeneration(Stripped(last.in.api_call)))

\* A request without hint whose raw call has no known shape and whose
\* stripped call has the GenV2 prefix.
C1_Witness ==
    /\ Requested
    /\ last.in.api_version = HintNone
    /\ ShapeGeneration(last.in.api_call) # ShapeGeneration(Stripped(last.in.api_call))
    /\ last.prep.version = VInt(2)

\* The verb the claim's table gives.
TableVerb(methods, tag, call, payload_present) ==
    CASE tag = VInt(2) -> "post"
      [] tag = VInt(1) -> IF call \in methods["1 post"] THEN "post" ELSE "get"
      [] tag = V_am -> IF call \in methods["am get"] THEN "get" ELSE "post"
      [] tag = V_was ->
            IF call \in methods["was get"] THEN "get"
            ELSE IF ~payload_present /\ call \in methods["was no data get"] THEN "get"
            ELSE "post"

\* A payload is present when data is neither None nor empty ('' or {}, or
\* an element without children, which Python also takes as false).
PayloadPresent(data) ==
    data \notin {DataNone, DataStr(<<>>), DataDict(d_empty), DataXml(0)}

\* C2: when no verb is given, the verb of a request is the one of the table:
\* GenV2 POST; GenV1 POST iff in the POST set; GenAssetMgmt GET iff in its
\* GET set; GenWebApp GET if in the GET set, else GET only without payload
\* and in the no-data GET set, else POST.
C2_SelectVerb ==
    (Requested /\ last.in.http_method = "" /\ last.prep.version \in Generations
     /\ last.prep.stage \in {"format_call", "dispatch"})
        => last.prep.http_method =
               TableVerb(api_methods, last.prep.version, Stripped(last.in.api_call),
                         PayloadPresent(last.in.data))

\* A GenWebApp request without payload for a call that is only in the
\* no-data GET set.
C2_Witness ==
    /\ Dispatched
    /\ last.in.http_method = ""
    /\ last.prep.version = V_was
    /\ Stripped(last.in.api_call) \in api_methods["was no data get"]
    /\ Stripped(last.in.api_call) \notin api_methods["was get"]
    /\ Stripped(last.in.api_call) \in api_methods["1 post"]
    /\ last.in.data = DataNone
    /\ last.prep.http_method = "get"

\* The case of C8: a GenWebApp request with no verb given, for a call in the
\* no-data GET set and not in the GET set.
NoDataGetCase ==
    /\ Dispatched
    /\ last.in.http_method = ""
    /\ last.prep.version = V_was
    /\ Stripped(last.in.api_call) \in api_methods["was no data get"]
    /\ Stripped(last.in.api_call) \notin api_methods["was get"]

\* C8, as claimed: a payload that is supplied but empty ('' or {}) gets POST.
C8_EmptyPayloadPosts ==
    (NoDataGetCase /\ last.in.data \in {DataStr(<<>>), DataDict(d_empty)})
        => last.prep.http_method = "post"

\* C8, amended: the fallback to GET applies when the payload is absent and
\* also when it is supplied but empty ('' or {}); a non-empty str or dict
\* gets POST.
C8_EmptyPayloadGets ==
    /\ (NoDataGetCase /\ last.in.data \in {DataNone, DataStr(<<>>), DataDict(d_empty)})
           => last.prep.http_method = "get"
    /\ (NoDataGetCase /\ last.in.data.k \in {"str", "dict"}
        /\ last.in.data \notin {DataStr(<<>>), DataDict(d_empty)})
           => last.prep.http_method = "post"

\* The case with an empty dict as payload.
C8_Witness == NoDataGetCase /\ last.in.data = DataDict(d_empty)

\* C3: format_call returns the call without leading '/' and trailing '?',
\* with one '/' appended exactly when (GenV2 and the stripped call does not
\* end in '/') or the stripped call is in the generation's trailing-slash
\* set; never two; a GenV2 result ends in '/'.
C3_Normalize ==
    (Requested /\ last.prep.stage \in {"format_call", "dispatch"})
        => LET c == Stripped(last.in.api_call)
               tag == last.prep.version
               slash == (tag = VInt(2) /\ ~endswith(c, <<"/">>))
                        \/ c \in api_methods_with_trailing_slash[tag]
           IN  /\ last.prep.exc = "none"
               /\ last.prep.call = IF slash THEN c \o <<"/">> ELSE c
               /\ tag = VInt(2) => endswith(last.prep.call, <<"/">>)

\* What is left of a hint after case folding and the removal of a leading
\* 'v' that a digit follows.
FoldedHint(h) ==
    LET a == lower(h)
    IN  IF Len(a) >= 2 /\ a[1] = "v" /\ isdigit(a[2]) THEN Tail(a) ELSE a

\* C4: a given (non-empty) str hint decides the generation whatever the
\* call: the module words give GenAssetMgmt and GenWebApp, 'pol', 'pc', '2', 'v2' give GenV2,
\* '1', 'v1' give GenV1, and a hint that is not a digit string after the
\* substitutions fails with the int() conversion error (UnrecognizedVersion).
C4_HintDecides ==
    (Requested /\ last.in.api_version.k = "str" /\ last.in.api_version.s # <<>>)
        => LET b == FoldedHint(last.in.api_version.s)
           IN  CASE b \in AmWords -> ResolvedAs(V_am)
                 [] b \in WasWords -> ResolvedAs(V_was)
                 [] b \in PcWords \cup {<<"2">>} -> ResolvedAs(VInt(2))
                 [] b = <<"1">> -> ResolvedAs(VInt(1))
                 [] b \notin AmWords \cup WasWords \cup PcWords
                    /\ (b = <<>> \/ \E i \in 1..Len(b) : ~isdigit(b[i])) ->
                        /\ last.prep.exc = "ValueError"
                        /\ last.prep.stage = "format_api_version"
                 [] OTHER -> TRUE

\* What a payload handed to a transport holds: for a dict or its urlencoded
\* form, the values of each key in order; for anything else, itself.
Content(data) ==
    IF data.k \in {"dict", "urlencoded"}
    THEN [key \in DOMAIN data.d |-> data.d[key].v]
    ELSE IF DataTruthy(data) THEN <<data>> ELSE <<>>

\* The verb curl uses for the arguments it gets: POST with -d, else GET.
CurlVerb(c) == IF c.data # DataNone THEN "post" ELSE "get"

\* The payload requests is handed: params of a get, data of a post.
RequestsPayload(r) == IF r.method = "get" THEN r.params ELSE r.data

\* C7: for every request, requests and curl are handed the same url, the
\* same headers, the same verb and the same payload content, every value of
\* a repeated key included.
C7_TransportsEquivalent ==
    Dispatched
        => LET p == last.prep
               r == requests_call(p.http_method, p.url, p.headers, p.data)
               c == curl_call(p.url, p.headers, p.data)
           IN  /\ r.url = c.url
               /\ r.headers = c.headers
               /\ r.method = CurlVerb(c)
               /\ Content(RequestsPayload(r)) = Content(c.data)

FailureStatus(resp) == resp.status >= 400

\* The mapping is the one before the last operation with key set to n.
StoredOver(before, key, n) ==
    /\ DOMAIN rate_limit_remaining = DOMAIN before \cup {key}
    /\ rate_limit_remaining[key] = n
    /\ \A k \in DOMAIN before \ {key} : rate_limit_remaining[k] = before[k]

\* C5: a response with a failure status makes request() fail with the HTTP
\* error, and the mapping is updated for the call iff the response carries
\* the header: with it the value is stored, without it nothing changes.
C5_FailureStatus ==
    (Dispatched /\ ~curl_use_subprocess /\ FailureStatus(last.resp))
        => /\ last.fin.exc = "HTTPError"
           /\ IF last.resp.has_header
              THEN /\ NumericHeader(last.resp)
                   /\ StoredOver(last.rate_before, last.prep.call, int(last.resp.header).n)
              ELSE rate_limit_remaining = last.rate_before

\* C6: recording never raises and never interrupts the request: an integer
\* header is stored over any prior value; a missing or non-numeric header
\* changes nothing; either way the request reaches its status check.
C6_RecordNeverRaises ==
    (Dispatched /\ ~curl_use_subprocess)
        => /\ last.fin.stage \in {"raise_for_status", "return"}
           /\ last.fin.exc = IF FailureStatus(last.resp) THEN "HTTPError" ELSE "none"
           /\ IF NumericHeader(last.resp)
              THEN StoredOver(last.rate_before, last.prep.call, int(last.resp.header).n)
              ELSE rate_limit_remaining = last.rate_before

ReadMissing == last.op = "read" /\ last.key \notin DOMAIN last.rate_before

\* C9, as claimed: an entry exists only for a call whose response carried a
\* numeric header; entries are never deleted; reading a key never recorded
\* yields 'absent' (-1 here) and leaves the mapping unchanged.
C9_EntriesOnlyRecorded ==
    /\ DOMAIN rate_limit_remaining \subseteq recorded
    /\ ever_keys \subseteq DOMAIN rate_limit_remaining
    /\ ReadMissing => (last.value = -1 /\ rate_limit_remaining = last.rate_before)

\* C9, amended: an entry exists only for a call whose response carried a
\* numeric header or for a key that was read; entries are never deleted;
\* reading a key that has no entry yields 0 and adds an entry 0 for it;
\* reading a key that has one yields its value and changes nothing.
C9_EntriesRecordedOrRead ==
    /\ DOMAIN rate_limit_remaining \subseteq recorded \cup was_read
    /\ ever_keys \subseteq DOMAIN rate_limit_remaining
    /\ ReadMissing => (last.value = 0 /\ StoredOver(last.rate_before, last.key, 0))
    /\ (last.op = "read" /\ last.key \in DOMAIN last.rate_before)
           => /\ last.value = last.rate_before[last.key]
              /\ rate_limit_remaining = last.rate_before

\* A key without entry is read while another call has a recorded value.
C9_Witness ==
    /\ ReadMissing
    /\ last.key \notin recorded
    /\ \E k \in recorded : k \in DOMAIN last.rate_before /\ last.rate_before[k] > 0

AllDone == \A t \in Threads : pc[t] = "done"

\* The values stored for call e, in the order of the stores.
StoredFor(e) == SelectSeq(stores, LAMBDA st : st[1] = e)

\* C10: once all concurrent requests are over, every call whose response
\* carried an integer header has an entry, every entry holds the value
\* stored last for its call, and nothing else of the connector changed.
C10_NoLostUpdate ==
    AllDone
        => /\ \A t \in Threads :
                  (~curl_use_subprocess /\ treq[t].call # <<>> /\ NumericHeader(treq[t].resp))
                      => treq[t].call \in DOMAIN rate_limit_remaining
           /\ \A e \in DOMAIN rate_limit_remaining :
                  /\ StoredFor(e) # <<>>
                  /\ rate_limit_remaining[e] = StoredFor(e)[Len(StoredFor(e))][2]
           /\ api_methods = NoMethods
           /\ api_methods_with_trailing_slash = NoSlash

\* Two threads stored different values for the same call.
C10_Witness ==
    /\ AllDone
    /\ \E e \in DOMAIN rate_limit_remaining :
           /\ Len(StoredFor(e)) >= 2
           /\ StoredFor(e)[1][2] # StoredFor(e)[Len(StoredFor(e))][2]

====
